---- MODULE Spec2Model ----
(***************************************************************************)
(* lalyta: an xBrowserSync-compatible bookmark sync backend.               *)
(*                                                                         *)
(* The model covers pkg/api (the five bookmark handlers), pkg/storage (the *)
(* buntdb-backed BookmarksStorage) and pkg/models (Bookmarks.Empty).       *)
(* Every HTTP request is served by its own goroutine, so a handler is a    *)
(* process whose steps are its accesses to shared state: a storage         *)
(* transaction (buntdb View / Update, atomic) or a reading of the wall     *)
(* clock (time.Now).  Everything a handler does between two such accesses  *)
(* is local and belongs to the step of the access that precedes it.  The   *)
(* variable last holds the exchange completed most recently: the request,  *)
(* the response written, the storage calls made and the handler's locals   *)
(* at its return.                                                          *)
(*                                                                         *)
(* Wall clock: time.Now() returns the instant the wall clock shows, which  *)
(* can be later than, equal to or earlier than any earlier reading: two    *)
(* goroutines can read the same instant, and the clock can be set back.    *)
(***************************************************************************)
EXTENDS Integers, Sequences, FiniteSets, TLC

\* ------------------------------------------------------------------ bounds

\* The wall clock shows the instants 1 .. MaxClock.
MaxClock == 2

\* gen.String is called with the lengths 0 .. MaxLen and idLength.
MaxLen == 3

\* ------------------------------------------------------------- value sets

\* The goroutines serving requests: two requests at most are in flight.
Workers == {1, 2}

\* What gen.String(idLength) can return: a sample id.
GenIds == {"ida"}

\* What params.ID can return: any path segment, the empty string and an id
\* that gen.String never returned included.
ReqIds == GenIds \cup {"", "idx"}

\* The "version" field of a POST body; absent decodes to "".
Versions == {"", "1.0.0"}

\* The "bookmarks" field of a PUT body.
Payloads == {"abc"}

\* ------------------------------------------------------------------- time

\* A time.Time is an instant and a *Location; == on time.Time compares both.
\* Instants are numbered: 0 is the Unix epoch, the zero time.Time{} (year
\* 1) lies before it, the instants the wall clock shows are 1, 2, ...
ZeroInstant == -1

ZeroTime == [t |-> ZeroInstant, loc |-> "UTC"]

\* time.UnixMicro(0): the Unix epoch, in the Local location.
UnixMicro0 == [t |-> 0, loc |-> "Local"]

\* Time.Equal: the same instant, whatever the locations.
TimeEqual(a, b) == a.t = b.t

\* time.Now().UTC() when the clock reads c.
NowUTC(c) == [t |-> c, loc |-> "UTC"]

\* The instants time.Now() can return.
Instants == 1 .. MaxClock

\* Time.MarshalJSON fails for a year outside [0, 9999]: the instants from
\* Year10000 on, which the wall clock does not show.
Year10000 == MaxClock + 1

\* The zone RFC 3339 writes for the server's Local location: its offset is
\* zero, the server runs in UTC.
LocalZone == "Z"

\* Time.MarshalJSON: RFC 3339 with the offset of the location, written "Z"
\* whenever the offset is zero, whatever the location: UTC, or the location
\* "+00:00" parsed to.
MarshalTime(tm) == [t |-> tm.t, zone |-> IF tm.loc = "Local" THEN LocalZone ELSE "Z"]

\* Time.UnmarshalJSON: "Z" parses to UTC, a numeric offset to Local or to a
\* fresh fixed zone, neither of which is == to UTC.
UnmarshalTime(s) == [t |-> s.t, loc |-> IF s.zone = "Z" THEN "UTC" ELSE "Offset"]

\* The "lastUpdated" field of a PUT body: absent, which decodes to the zero
\* time as "0001-01-01T00:00:00Z" does, or any reading of the clock, past
\* or future, written in UTC ("Z") or with a numeric offset.
Tokens ==
    [t : {ZeroInstant} \cup Instants, zone : {"Z"}]
      \cup [t : Instants, zone : {"+00:00"}]

\* ---------------------------------------------------------------- storage

\* bookmarksKey
bookmarksKey(id) == "bookmarks:" \o id

\* The database is a finite map from keys to values; tx.Get fails with
\* buntdb.ErrNotFound on a key outside its domain.  A value is a text: a
\* JSON object that decodes into a bookmarksEntry is the record of its
\* fields, any other text s is [text |-> s].
EmptyDB == [k \in {} |-> ""]

\* json.Unmarshal accepts the value for a bookmarksEntry.
Decodes(v) == "id" \in DOMAIN v

\* tx.Set(key, value)
TxSet(d, key, value) ==
    [k \in DOMAIN d \cup {key} |-> IF k = key THEN value ELSE d[k]]

\* makeBookmarksEntry with the key built without the id of the record.
makeBookmarksEntryNoId(b) ==
    [key   |-> bookmarksKey(""),
     value |-> [id          |-> b.ID,
                bookmarks   |-> b.Bookmarks,
                lastUpdated |-> MarshalTime(b.LastUpdated),
                version     |-> b.Version]]

\* makeBookmarksEntry: the key and the JSON value of a record, an empty key
\* and an empty value when json.Marshal fails.
makeBookmarksEntry(b) ==
    IF b.LastUpdated.t >= Year10000
      THEN [key |-> "", value |-> [text |-> ""]]
      ELSE [key   |-> bookmarksKey(b.ID),
            value |-> [id          |-> b.ID,
                       bookmarks   |-> b.Bookmarks,
                       lastUpdated |-> MarshalTime(b.LastUpdated),
                       version     |-> b.Version]]

\* Bookmarks.Empty
Empty(b) ==
    \/ b.ID = ""
    \/ TimeEqual(b.LastUpdated, UnixMicro0)
    \/ b.Version = ""

NoBookmarks == [ID |-> "", Bookmarks |-> "", LastUpdated |-> ZeroTime, Version |-> ""]

\* The errors of DB.GetBookmarks and DB.SetBookmarks, by what errors.Is
\* finds in them.
ErrNil == "nil"
ErrBookmarksNotFound == "api.ErrBookmarksNotFound"
ErrBuntNotFound == "db.bunt.View: tx.Get: buntdb.ErrNotFound"
ErrDatabaseClosed == "buntdb.ErrDatabaseClosed"
ErrWrite == "tx.Set / commit error"
ErrUnmarshal == "db.bunt.View: json.Unmarshal"

\* DB.GetBookmarks on the database contents d.
GetBookmarks(d, isClosed, id) ==
    IF isClosed
      THEN [res |-> NoBookmarks, err |-> ErrDatabaseClosed]
    ELSE IF bookmarksKey(id) \notin DOMAIN d
      THEN [res |-> NoBookmarks, err |-> ErrBuntNotFound]
    ELSE IF ~Decodes(d[bookmarksKey(id)])
      THEN [res |-> NoBookmarks, err |-> ErrUnmarshal]
    ELSE LET e == d[bookmarksKey(id)]
             res == [ID          |-> e.id,
                     Bookmarks   |-> e.bookmarks,
                     LastUpdated |-> UnmarshalTime(e.lastUpdated),
                     Version     |-> e.version]
         IN  IF Empty(res)
               THEN [res |-> NoBookmarks, err |-> ErrBookmarksNotFound]
               ELSE [res |-> res, err |-> ErrNil]

\* DB.SetBookmarks: the database after the write, d itself when it fails.
SetBookmarks(d, isClosed, ioErr, b) ==
    IF isClosed
      THEN [db |-> d, err |-> ErrDatabaseClosed]
    ELSE IF ioErr
      THEN [db |-> d, err |-> ErrWrite]
    ELSE LET kv == makeBookmarksEntry(b)
         IN  [db |-> TxSet(d, kv.key, kv.value), err |-> ErrNil]

\* ------------------------------------------------------------- gen.String

\* const idLength
idLength == 32

\* const letters: the bytes of "abcdefghijklmnopqrstuvwxyz0123456789".
letters ==
    <<"a", "b", "c", "d", "e", "f", "g", "h", "i", "j", "k", "l", "m",
      "n", "o", "p", "q", "r", "s", "t", "u", "v", "w", "x", "y", "z",
      "0", "1", "2", "3", "4", "5", "6", "7", "8", "9">>

ErrRand == "rand.Int: entropy unavailable"

\* The lengths gen.String is called with.
Lengths == (0 .. MaxLen) \cup {idLength}

\* What crypto/rand supplies to one call of gen.String: draw i (from 0) is
\* seed + step * i reduced below the bound asked for, and the draw failAt
\* fails (none does when failAt is -1).
Rnds ==
    [seed   : {0, 10, 35},
     step   : {0, 1, 7},
     failAt : {-1} \cup (0 .. MaxLen) \cup {idLength - 1}]

\* rand.Int(rand.Reader, max), the i-th call.
RandInt(rnd, i, max) ==
    IF i = rnd.failAt
      THEN [n |-> 0, err |-> ErrRand]
      ELSE [n |-> (rnd.seed + rnd.step * i) % max, err |-> ErrNil]

\* The loop of gen.String from its counter i on, s being the bytes written
\* to the strings.Builder; Builder.WriteByte never fails.
RECURSIVE StringLoop(_, _, _, _)
StringLoop(i, length, rnd, s) ==
    IF i < length
      THEN LET r == RandInt(rnd, i, Len(letters))
           IN  IF r.err # ErrNil
                 THEN [s |-> <<>>, err |-> r.err]
                 ELSE StringLoop(i + 1, length, rnd, Append(s, letters[r.n + 1]))
      ELSE [s |-> s, err |-> ErrNil]

\* gen.String with its loop counter starting at 1.
StringFromOne(length, rnd) == StringLoop(1, length, rnd, <<>>)

\* gen.String
String(length, rnd) == StringLoop(0, length, rnd, <<>>)

\* Builder.String: the bytes written, as a string.
RECURSIVE BuilderString(_)
BuilderString(s) ==
    IF s = <<>> THEN "" ELSE Head(s) \o BuilderString(Tail(s))

\* ------------------------------------------------------------------ state

VARIABLES
    db,      \* the buntdb database: key -> JSON value
    closed,  \* bunt.Close() has run
    pc,      \* where each goroutine is in its handler
    req,     \* the request a goroutine is serving
    local,   \* the handler's local variables: b / bookmarks, now, err
    calls,   \* the storage calls the handler has made, in order
    last,    \* the exchange completed most recently
    gen      \* a call of gen.String: its length, the random source, its result

vars == <<db, closed, pc, req, local, calls, last, gen>>

NoReq == [op |-> "none", id |-> "", bodyOk |-> TRUE, version |-> "",
          bookmarks |-> "", lastUpdated |-> MarshalTime(ZeroTime)]

NoResp == [status |-> 0, id |-> "", bookmarks |-> "",
           lastUpdated |-> MarshalTime(ZeroTime), version |-> ""]

\* w.WriteHeader(status): a response without a body.
Bare(status) == [NoResp EXCEPT !.status = status]

NoLocal == [b |-> NoBookmarks, now |-> ZeroTime, err |-> ErrNil]

NoExchange == [req |-> NoReq, resp |-> NoResp, calls |-> <<>>, local |-> NoLocal]

NoRnd == [seed |-> 0, step |-> 0, failAt |-> -1]

\* gen.String not called: the ids of the handlers are drawn from GenIds.
NoGen == [length |-> 0, rnd |-> NoRnd, called |-> FALSE,
          out |-> [s |-> <<>>, err |-> ErrNil]]

Init ==
    /\ db = EmptyDB
    /\ closed = FALSE
    /\ pc = [w \in Workers |-> "idle"]
    /\ req = [w \in Workers |-> NoReq]
    /\ local = [w \in Workers |-> NoLocal]
    /\ calls = [w \in Workers |-> <<>>]
    /\ last = NoExchange
    /\ gen = NoGen

\* A new request is served by the first idle goroutine.
Idle(w) == pc[w] = "idle" /\ \A v \in Workers : pc[v] = "idle" => v >= w

\* The handler of w returns: it has served request r with response rs,
\* after the storage calls cs, its locals being lc.
Respond(w, r, rs, cs, lc) ==
    /\ last' = [req |-> r, resp |-> rs, calls |-> cs, local |-> lc]
    /\ pc' = [pc EXCEPT ![w] = "idle"]
    /\ req' = [req EXCEPT ![w] = NoReq]
    /\ local' = [local EXCEPT ![w] = NoLocal]
    /\ calls' = [calls EXCEPT ![w] = <<>>]

\* The handler of w goes on to its next step at label l with locals lc,
\* having made the storage calls cs for request r.
Goto(w, l, r, cs, lc) ==
    /\ pc' = [pc EXCEPT ![w] = l]
    /\ req' = [req EXCEPT ![w] = r]
    /\ local' = [local EXCEPT ![w] = lc]
    /\ calls' = [calls EXCEPT ![w] = cs]
    /\ UNCHANGED last

\* ----------------------------------------------------------------- create

\* The record CreateBookmarks builds.
CreateRecord(id, now, version) ==
    [ID |-> id, Bookmarks |-> "", LastUpdated |-> now, Version |-> version]

\* CreateBookmarks, up to its call of SetBookmarks: decode the body,
\* generate the id, read the clock (any instant it can show), build the
\* record.
CreateBegin(w, bodyOk, version, genOk, id) ==
    LET r == [NoReq EXCEPT !.op = "Create", !.bodyOk = bodyOk, !.version = version]
    IN  /\ Idle(w)
        /\ UNCHANGED <<db, closed, gen>>
        /\ IF ~bodyOk \/ ~genOk
             THEN Respond(w, r, Bare(500), <<>>, NoLocal)
             ELSE \E t \in Instants :
                    Goto(w, "create_set", r, <<>>,
                         [NoLocal EXCEPT !.b = CreateRecord(id, NowUTC(t), version)])

\* The body of CreateBookmarks' 200 response.
CreateResponse(b) ==
    [NoResp EXCEPT !.status = 200,
                   !.id = b.ID,
                   !.lastUpdated = MarshalTime(b.LastUpdated),
                   !.version = b.Version]

\* CreateBookmarks from its call of SetBookmarks on.
CreateSet(w, ioErr) ==
    /\ pc[w] = "create_set"
    /\ LET out == SetBookmarks(db, closed, ioErr, local[w].b)
           lc  == [local[w] EXCEPT !.err = out.err]
           cs  == Append(calls[w], "Set")
       IN  /\ db' = out.db
           /\ IF out.err # ErrNil
                THEN Respond(w, req[w], Bare(500), cs, lc)
                ELSE Respond(w, req[w], CreateResponse(local[w].b), cs, lc)
    /\ UNCHANGED <<closed, gen>>

\* ------------------------------------------------------------------ reads

\* The read handlers without their check of the id.
ReadOutcomeNoIdCheck(d, isClosed, id) ==
    LET g == GetBookmarks(d, isClosed, id)
    IN  IF g.err # ErrNil
          THEN [status |-> 404, calls |-> <<"Get">>,
                local |-> [NoLocal EXCEPT !.err = g.err]]
          ELSE [status |-> 200, calls |-> <<"Get">>,
                local |-> [NoLocal EXCEPT !.b = g.res]]

\* What a read handler has when it responds: status 400 for an empty id
\* before any storage call, 404 for any error of GetBookmarks.
ReadOutcome(d, isClosed, id) ==
    IF id = ""
      THEN [status |-> 400, calls |-> <<>>, local |-> NoLocal]
    ELSE LET g == GetBookmarks(d, isClosed, id)
         IN  IF g.err # ErrNil
               THEN [status |-> 404, calls |-> <<"Get">>,
                     local |-> [NoLocal EXCEPT !.err = g.err]]
               ELSE [status |-> 200, calls |-> <<"Get">>,
                     local |-> [NoLocal EXCEPT !.b = g.res]]

\* The body of Bookmarks' 200 response.
BookmarksResponse(b) ==
    [NoResp EXCEPT !.status = 200,
                   !.bookmarks = b.Bookmarks,
                   !.lastUpdated = MarshalTime(b.LastUpdated),
                   !.version = b.Version]

\* The body of LastUpdated's 200 response.
LastUpdatedResponse(b) ==
    [NoResp EXCEPT !.status = 200, !.lastUpdated = MarshalTime(b.LastUpdated)]

\* The body of Version's 200 response.
VersionResponse(b) ==
    [NoResp EXCEPT !.status = 200, !.version = b.Version]

\* A read handler: one storage transaction at most, then the response.
ReadHandler(w, op, id, out, body) ==
    /\ Idle(w)
    /\ Respond(w, [NoReq EXCEPT !.op = op, !.id = id],
               IF out.status = 200 THEN body ELSE Bare(out.status),
               out.calls, out.local)
    /\ UNCHANGED <<db, closed, gen>>

\* GET /bookmarks/{id}
Bookmarks(w, id) ==
    LET out == ReadOutcome(db, closed, id)
    IN  ReadHandler(w, "Bookmarks", id, out, BookmarksResponse(out.local.b))

\* GET /bookmarks/{id}/lastUpdated
LastUpdated(w, id) ==
    LET out == ReadOutcome(db, closed, id)
    IN  ReadHandler(w, "LastUpdated", id, out, LastUpdatedResponse(out.local.b))

\* GET /bookmarks/{id}/version
Version(w, id) ==
    LET out == ReadOutcome(db, closed, id)
    IN  ReadHandler(w, "Version", id, out, VersionResponse(out.local.b))

\* ----------------------------------------------------------------- update

\* The comparison as p.LastUpdated.Before(b.LastUpdated): a token later
\* than the stored timestamp passes.
StaleOnlyOlder(p, b) == UnmarshalTime(p.lastUpdated).t < b.LastUpdated.t

\* p.LastUpdated != b.LastUpdated, on time.Time values.
Stale(p, b) == UnmarshalTime(p.lastUpdated) # b.LastUpdated

\* UpdateBookmarks up to the comparison of the timestamps: status 0 when
\* the handler goes on to write.
UpdateOutcome(d, isClosed, p) ==
    IF p.id = "" \/ ~p.bodyOk
      THEN [status |-> 400, calls |-> <<>>, local |-> NoLocal]
    ELSE LET g == GetBookmarks(d, isClosed, p.id)
         IN  IF g.err # ErrNil
               THEN [status |-> 404, calls |-> <<"Get">>,
                     local |-> [NoLocal EXCEPT !.err = g.err]]
             ELSE IF Stale(p, g.res)
               THEN [status |-> 400, calls |-> <<"Get">>,
                     local |-> [NoLocal EXCEPT !.b = g.res]]
             ELSE [status |-> 0, calls |-> <<"Get">>,
                   local |-> [NoLocal EXCEPT !.b = g.res]]

\* UpdateBookmarks: the id, the body, GetBookmarks and the comparison.
UpdateGet(w, id, bodyOk, bookmarks, lastUpdated) ==
    LET p == [NoReq EXCEPT !.op = "Update", !.id = id, !.bodyOk = bodyOk,
                           !.bookmarks = bookmarks, !.lastUpdated = lastUpdated]
        out == UpdateOutcome(db, closed, p)
    IN  /\ Idle(w)
        /\ IF out.status # 0
             THEN Respond(w, p, Bare(out.status), out.calls, out.local)
             ELSE Goto(w, "update_now", p, out.calls, out.local)
        /\ UNCHANGED <<db, closed, gen>>

\* UpdateBookmarks: now := time.Now().UTC()
UpdateNow(w) ==
    /\ pc[w] = "update_now"
    /\ \E t \in Instants :
         Goto(w, "update_set", req[w], calls[w], [local[w] EXCEPT !.now = NowUTC(t)])
    /\ UNCHANGED <<db, closed, gen>>

\* The record written without Version: b.Version, the field left to its
\* zero value.
UpdateRecordDropsVersion(id, p, b, now) ==
    [ID |-> id, Bookmarks |-> p.bookmarks, LastUpdated |-> now, Version |-> ""]

\* The record UpdateBookmarks writes.
UpdateRecord(id, p, b, now) ==
    [ID |-> id, Bookmarks |-> p.bookmarks, LastUpdated |-> now, Version |-> b.Version]

\* The body of UpdateBookmarks' 200 response.
UpdateResponse(now) ==
    [NoResp EXCEPT !.status = 200, !.lastUpdated = MarshalTime(now)]

\* UpdateBookmarks from its call of SetBookmarks on.
UpdateSet(w, ioErr) ==
    /\ pc[w] = "update_set"
    /\ LET rec == UpdateRecord(req[w].id, req[w], local[w].b, local[w].now)
           out == SetBookmarks(db, closed, ioErr, rec)
           lc  == [local[w] EXCEPT !.err = out.err]
           cs  == Append(calls[w], "Set")
       IN  /\ db' = out.db
           /\ IF out.err # ErrNil
                THEN Respond(w, req[w], Bare(500), cs, lc)
                ELSE Respond(w, req[w], UpdateResponse(local[w].now), cs, lc)
    /\ UNCHANGED <<closed, gen>>

\* ------------------------------------------------------------ environment

\* run: ListenAndServe returns and the deferred bunt.Close() runs while
\* handlers are still in flight.
Close ==
    /\ ~closed
    /\ closed' = TRUE
    /\ UNCHANGED <<db, pc, req, local, calls, last, gen>>

\* The bodies a POST /bookmarks can carry, with the outcome of gen.String:
\* an undecodable body, or a version with an id or a failure of crypto/rand.
CreateInputs ==
    {<<FALSE, "", TRUE, "">>}
      \cup {<<TRUE, v, FALSE, "">> : v \in Versions}
      \cup {<<TRUE, v, TRUE, id>> : v \in Versions, id \in GenIds}

\* The path ids and bodies a PUT /bookmarks/{id} can carry.
UpdateInputs ==
    {<<id, FALSE, "", MarshalTime(ZeroTime)>> : id \in ReqIds}
      \cup {<<id, TRUE, bm, tk>> : id \in ReqIds, bm \in Payloads, tk \in Tokens}

Next ==
    \/ \E w \in Workers, in \in CreateInputs :
            CreateBegin(w, in[1], in[2], in[3], in[4])
    \/ \E w \in Workers, ioErr \in BOOLEAN : CreateSet(w, ioErr)
    \/ \E w \in Workers, id \in ReqIds : Bookmarks(w, id)
    \/ \E w \in Workers, id \in ReqIds : LastUpdated(w, id)
    \/ \E w \in Workers, id \in ReqIds : Version(w, id)
    \/ \E w \in Workers, in \in UpdateInputs :
            UpdateGet(w, in[1], in[2], in[3], in[4])
    \/ \E w \in Workers : UpdateNow(w)
    \/ \E w \in Workers, ioErr \in BOOLEAN : UpdateSet(w, ioErr)
    \/ Close

Spec == Init /\ [][Next]_vars

\* ------------------------------------------- updates of an existing record

\* The state after one successful POST /bookmarks with version v, which
\* Spec reaches by CreateBegin and CreateSet.
Created(v) ==
    LET b == CreateRecord("ida", NowUTC(1), v)
    IN  /\ db = SetBookmarks(EmptyDB, FALSE, FALSE, b).db
        /\ closed = FALSE
        /\ pc = [w \in Workers |-> "idle"]
        /\ req = [w \in Workers |-> NoReq]
        /\ local = [w \in Workers |-> NoLocal]
        /\ calls = [w \in Workers |-> <<>>]
        /\ last = [req   |-> [NoReq EXCEPT !.op = "Create", !.version = v],
                   resp  |-> CreateResponse(b),
                   calls |-> <<"Set">>,
                   local |-> [NoLocal EXCEPT !.b = b]]
        /\ gen = NoGen

InitUpd == \E v \in Versions : Created(v)

\* Every request but POST /bookmarks.
NextUpd ==
    \/ \E w \in Workers, id \in ReqIds : Bookmarks(w, id)
    \/ \E w \in Workers, id \in ReqIds : LastUpdated(w, id)
    \/ \E w \in Workers, id \in ReqIds : Version(w, id)
    \/ \E w \in Workers, in \in UpdateInputs :
            UpdateGet(w, in[1], in[2], in[3], in[4])
    \/ \E w \in Workers : UpdateNow(w)
    \/ \E w \in Workers, ioErr \in BOOLEAN : UpdateSet(w, ioErr)
    \/ Close

\* The requests on a record after its creation: no further POST /bookmarks.
SpecUpd == InitUpd /\ [][NextUpd]_vars

\* --------------------------------------- DB.GetBookmarks on stored values

\* The timestamps a stored JSON value can carry: the zero time.Time that an
\* absent "lastUpdated" decodes to, the Unix epoch, a reading of the clock.
StoredTimes ==
    [t : {ZeroInstant, 0, 1}, zone : {"Z"}] \cup [t : {0, 1}, zone : {"+00:00"}]

\* The values the store can hold, whoever wrote them: the JSON objects
\* json.Unmarshal decodes into a bookmarksEntry, every field set or left to
\* its zero value, and texts it rejects.
StoredValues ==
    [id          : GenIds \cup {""},
     bookmarks   : Payloads \cup {""},
     lastUpdated : StoredTimes,
     version     : Versions]
      \cup {[text |-> "not json"], [text |-> ""]}

\* A database that holds one value under the key of an id.
InitGet ==
    /\ \E id \in GenIds, v \in StoredValues :
            db = TxSet(EmptyDB, bookmarksKey(id), v)
    /\ closed = FALSE
    /\ pc = [w \in Workers |-> "idle"]
    /\ req = [w \in Workers |-> NoReq]
    /\ local = [w \in Workers |-> NoLocal]
    /\ calls = [w \in Workers |-> <<>>]
    /\ last = NoExchange
    /\ gen = NoGen

\* The handlers that call DB.GetBookmarks and nothing else.
NextGet ==
    \/ \E w \in Workers, id \in ReqIds : Bookmarks(w, id)
    \/ \E w \in Workers, id \in ReqIds : LastUpdated(w, id)
    \/ \E w \in Workers, id \in ReqIds : Version(w, id)

\* DB.GetBookmarks applied to every stored value.
SpecGet == InitGet /\ [][NextGet]_vars

\* ------------------------------------------------- the ids of gen.String

\* gen.String is about to be called with a length and a random source.
InitGen ==
    /\ db = EmptyDB
    /\ closed = FALSE
    /\ pc = [w \in Workers |-> "idle"]
    /\ req = [w \in Workers |-> NoReq]
    /\ local = [w \in Workers |-> NoLocal]
    /\ calls = [w \in Workers |-> <<>>]
    /\ last = NoExchange
    /\ gen \in [length : Lengths, rnd : Rnds, called : {FALSE},
                out : {NoGen.out}]

\* The call of gen.String returns.
GenString ==
    /\ ~gen.called
    /\ gen' = [gen EXCEPT !.called = TRUE, !.out = String(gen.length, gen.rnd)]
    /\ UNCHANGED <<db, closed, pc, req, local, calls, last>>

\* CreateBookmarks with id, err := gen.String(idLength) as that call
\* returned.
CreateBeginGen(w, bodyOk, version) ==
    /\ gen.called
    /\ gen.length = idLength
    /\ CreateBegin(w, bodyOk, version, gen.out.err = ErrNil,
                   BuilderString(gen.out.s))

\* gen.String on its own, and POST /bookmarks with the id it returned.
NextGen ==
    \/ GenString
    \/ \E w \in Workers, bodyOk \in BOOLEAN, version \in Versions :
            CreateBeginGen(w, bodyOk, version)
    \/ \E w \in Workers, ioErr \in BOOLEAN : CreateSet(w, ioErr)

SpecGen == InitGen /\ [][NextGen]_vars

\* ---------------------------------------------------- records of two ids

\* Two ids that gen.String returned.
TwoIds == {"ida", "idb"}

\* Every request, on two ids: creates with a version that gen.String
\* served with either id, reads of either id or of the empty id, updates of
\* either id whose token is a timestamp the server can have returned; the
\* writes succeed.
NextTwo ==
    \/ \E w \in Workers, id \in TwoIds :
            CreateBegin(w, TRUE, "1.0.0", TRUE, id)
    \/ \E w \in Workers : CreateSet(w, FALSE)
    \/ \E w \in Workers, id \in TwoIds \cup {""} : Bookmarks(w, id)
    \/ \E w \in Workers, id \in TwoIds \cup {""} : LastUpdated(w, id)
    \/ \E w \in Workers, id \in TwoIds \cup {""} : Version(w, id)
    \/ \E w \in Workers, id \in TwoIds, t \in Instants :
            UpdateGet(w, id, TRUE, "abc", MarshalTime(NowUTC(t)))
    \/ \E w \in Workers : UpdateNow(w)
    \/ \E w \in Workers : UpdateSet(w, FALSE)

SpecTwo == Init /\ [][NextTwo]_vars

\* ----------------------------------------------------------------- claims

\* The step completes an exchange.
Completes == last' # last

\* The exchange e is a PUT /bookmarks/{id} answered 200.
UpdateOK(e) == e.req.op = "Update" /\ e.resp.status = 200

\* The exchange e is a POST /bookmarks answered 200.
CreateOK(e) == e.req.op = "Create" /\ e.resp.status = 200

\* The operations that read a record and write none.
ReadOps == {"Bookmarks", "LastUpdated", "Version"}

\* The exchange e is an update that returned from UpdateGet: it never got
\* to its write, so it was issued in the step that completed it.
UpdateRefused(e) == e.req.op = "Update" /\ e.calls \in {<<>>, <<"Get">>}

\* A stored value is a record in the sense of the data model: every field
\* but the payload is set.
Populated(e) == e.id # "" /\ e.lastUpdated.t # 0 /\ e.version # ""

\* A record exists under id in the database d.
Exists(d, id) ==
    bookmarksKey(id) \in DOMAIN d /\ Populated(d[bookmarksKey(id)])

\* C1: of two updates of the same id that carry the same lastUpdated token,
\* at most one succeeds: when an update has been answered 200, the next
\* exchange to complete, if it is an update of that id with that token, is
\* not answered 200, however the steps of the two handlers interleaved.
C1_AtMostOneUpdateWins ==
    [][(/\ UpdateOK(last)
        /\ Completes
        /\ last'.req.op = "Update"
        /\ last'.req.id = last.req.id
        /\ last'.req.lastUpdated = last.req.lastUpdated)
          => last'.resp.status # 200]_vars

\* C2: a read of the id a create returned, with no exchange in between and
\* the database open, is answered 200 with an empty payload, the version of
\* the create and the timestamp of the create, whatever the version was.
C2_CreateThenRead ==
    [][(/\ CreateOK(last)
        /\ ~closed
        /\ last'.req.op = "Bookmarks"
        /\ last'.req.id = last.resp.id)
          => /\ last'.resp.status = 200
             /\ last'.resp.bookmarks = ""
             /\ last'.resp.version = last.req.version
             /\ last'.resp.lastUpdated = last.resp.lastUpdated]_vars

\* C3: after an update with token T0 was answered 200, an update of the same
\* id with the same token issued next, with no exchange in between and the
\* database open, is answered 400 and leaves the database as it was; it
\* never gets past the comparison of the timestamps.
C3_SecondUpdateFails ==
    [][(UpdateOK(last) /\ ~closed) =>
         /\ \A w \in Workers :
              (/\ pc[w] = "idle"
               /\ pc'[w] = "update_now"
               /\ req'[w].id = last.req.id)
                 => req'[w].lastUpdated # last.req.lastUpdated
         /\ (/\ Completes
             /\ UpdateRefused(last')
             /\ last'.req.bodyOk
             /\ last'.req.id = last.req.id
             /\ last'.req.lastUpdated = last.req.lastUpdated)
               => (last'.resp.status = 400 /\ db' = db)]_vars

\* C4: the timestamp a successful update writes is strictly later than the
\* timestamp stored for the id immediately before the write.
C4_TimestampStrictlyIncreases ==
    [][(Completes /\ UpdateOK(last')) =>
         LET k == bookmarksKey(last'.req.id)
         IN  /\ k \in DOMAIN db
             /\ db'[k].lastUpdated.t > db[k].lastUpdated.t]_vars

\* C5: once a record is created, no step of any interleaving of update and
\* read requests changes its stored id or its stored version.
C5_VersionWriteOnce ==
    [][\A k \in DOMAIN db :
         /\ k \in DOMAIN db'
         /\ db'[k].id = db[k].id
         /\ db'[k].version = db[k].version]_vars

\* C5 happens: an update of the created record was answered 200 and its
\* payload is stored.
C5_Witness ==
    /\ UpdateOK(last)
    /\ db[bookmarksKey(last.req.id)].bookmarks = last.req.bookmarks
    /\ db[bookmarksKey(last.req.id)].version = "1.0.0"

\* C6, the write: an update answered 200 carried the token that was stored
\* when it read the record, and has stored under its id the record it read
\* with the new payload and the instant it read from the clock, which is
\* the timestamp it returns.
C6_Persists ==
    (Completes /\ UpdateOK(last')) =>
        LET k == bookmarksKey(last'.req.id)
            b == last'.local.b
        IN  /\ b.ID = last'.req.id
            /\ last'.req.lastUpdated.t = b.LastUpdated.t
            /\ last'.resp.lastUpdated.t = last'.local.now.t
            /\ last'.resp.lastUpdated.t \in 1 .. MaxClock
            /\ last'.resp.lastUpdated.zone = "Z"
            /\ k \in DOMAIN db'
            /\ db'[k] = [id          |-> last'.req.id,
                         bookmarks   |-> last'.req.bookmarks,
                         lastUpdated |-> last'.resp.lastUpdated,
                         version     |-> b.Version]

\* C6, the match: an update of an existing record whose token is the same
\* instant as the stored timestamp, in whatever zone it is written, is not
\* refused; once it has called SetBookmarks it is answered 200, and 500 only
\* when the backend failed the write.
C6_MatchSucceeds ==
    /\ (/\ Completes
        /\ UpdateRefused(last')
        /\ last'.req.bodyOk
        /\ ~closed
        /\ Exists(db, last'.req.id))
          => last'.req.lastUpdated.t # db[bookmarksKey(last'.req.id)].lastUpdated.t
    /\ (Completes /\ last'.req.op = "Update" /\ ~UpdateRefused(last'))
          => /\ last'.calls = <<"Get", "Set">>
             /\ last'.resp.status = IF last'.local.err = ErrNil THEN 200 ELSE 500

\* C6, the read: a read of the id next after an update answered 200, the
\* database open, returns the new payload, the version the record had and
\* the timestamp the update returned.
C6_ReadsBack ==
    (/\ UpdateOK(last)
     /\ ~closed
     /\ last'.req.op = "Bookmarks"
     /\ last'.req.id = last.req.id)
       => last'.resp = [status      |-> 200,
                        id          |-> "",
                        bookmarks   |-> last.req.bookmarks,
                        lastUpdated |-> last.resp.lastUpdated,
                        version     |-> last.local.b.Version]

\* C6: an update of an existing id with a token equal, as an instant, to
\* the stored timestamp succeeds, stores the record with its id and version,
\* the new payload and a fresh timestamp, and returns that timestamp; a read
\* next after it returns the new payload, the version and that timestamp.
C6_UpdateThenRead ==
    [][C6_Persists /\ C6_MatchSucceeds /\ C6_ReadsBack]_vars

\* C7: a read, read of lastUpdated or read of version with an empty id is
\* answered 400 without any storage call, and one of an id under which
\* nothing was ever stored is answered 404.
C7_ReadErrors ==
    last.req.op \in ReadOps =>
        /\ last.req.id = "" => (last.resp.status = 400 /\ last.calls = <<>>)
        /\ (last.req.id # "" /\ bookmarksKey(last.req.id) \notin DOMAIN db)
              => (last.resp.status = 404 /\ last.calls = <<"Get">>)

\* C7 happens: the version of an id that was never created was asked for,
\* while another id has a record.
C7_Witness ==
    /\ last.req.op = "Version"
    /\ last.req.id = "idx"
    /\ last.resp.status = 404
    /\ Exists(db, "ida")

\* C8, the write: the database changes only in the step that completes a
\* create or an update answered 200, and an update writes only after
\* GetBookmarks returned a record whose timestamp is the token.
C8_WritesOnlyOnSuccess ==
    db' # db =>
        /\ Completes
        /\ last'.resp.status = 200
        /\ last'.req.op \in {"Create", "Update"}
        /\ last'.req.op = "Update" =>
              /\ last'.calls = <<"Get", "Set">>
              /\ last'.req.lastUpdated.zone = "Z"
              /\ last'.req.lastUpdated.t = last'.local.b.LastUpdated.t

\* C8, the refusals: an update of an id without a record is answered 404,
\* an update whose token differs from the stored timestamp is answered 400.
C8_Refusals ==
    (Completes /\ UpdateRefused(last') /\ last'.req.bodyOk
       /\ last'.req.id # "" /\ ~closed) =>
        IF ~Exists(db, last'.req.id)
          THEN last'.resp.status = 404 /\ db' = db
          ELSE last'.req.lastUpdated # db[bookmarksKey(last'.req.id)].lastUpdated
                 => (last'.resp.status = 400 /\ db' = db)

\* C8: an update that fails leaves the database unchanged: 404 and no new
\* record for an id without a record, 400 and no write for a token that is
\* not the stored timestamp, earlier or later; SetBookmarks is called only
\* after the comparison of the timestamps passed.
C8_FailedUpdateWritesNothing ==
    [][C8_WritesOnlyOnSuccess /\ C8_Refusals]_vars

\* C8 happens: an update with a token later than the stored timestamp was
\* answered 400.
C8_Witness ==
    /\ UpdateRefused(last)
    /\ last.resp.status = 400
    /\ Exists(db, last.req.id)
    /\ last.req.lastUpdated.zone = "Z"
    /\ last.req.lastUpdated.t > db[bookmarksKey(last.req.id)].lastUpdated.t

\* C9: a handler whose GetBookmarks failed because the backend could not be
\* read answers 500.
C9_ReadFailureIs500 ==
    (/\ last.req.op \in ReadOps \cup {"Update"}
     /\ last.calls = <<"Get">>
     /\ last.local.err = ErrDatabaseClosed)
       => last.resp.status = 500

\* C10: the error GetBookmarks returned for an id under which nothing is
\* stored, the backend being readable, is api.ErrBookmarksNotFound.
C10_AbsentIsErrBookmarksNotFound ==
    (/\ last.calls = <<"Get">>
     /\ bookmarksKey(last.req.id) \notin DOMAIN db
     /\ last.local.err # ErrDatabaseClosed)
       => last.local.err = ErrBookmarksNotFound

\* C11: no request deletes a record: a record that a read can return stays
\* one through every step of create, update and read requests, and a read
\* of an id that has a record, the database open, is answered 200.
C11_NoDelete ==
    [][/\ \A id \in ReqIds : Exists(db, id) => Exists(db', id)
       /\ (/\ Completes
           /\ last'.req.op \in ReadOps
           /\ ~closed
           /\ Exists(db, last'.req.id))
             => last'.resp.status = 200]_vars

\* C12: a create answered 200 has stored its record under an id that had no
\* entry before, and has left every stored entry as it was.
C12_CreateNeverOverwrites ==
    [][(Completes /\ CreateOK(last')) =>
         /\ bookmarksKey(last'.resp.id) \notin DOMAIN db
         /\ \A k \in DOMAIN db : k \in DOMAIN db' /\ db'[k] = db[k]]_vars

\* C14: every entry of the store is a fully populated record: its id is not
\* empty, its timestamp is neither the zero time nor the Unix epoch, its
\* version is not empty.
C14_StoredRecordsPopulated ==
    \A k \in DOMAIN db :
        /\ db[k].id # ""
        /\ db[k].lastUpdated.t \notin {ZeroInstant, 0}
        /\ db[k].version # ""

\* C15: DB.GetBookmarks, called for a key that holds a value, returns
\* api.ErrBookmarksNotFound and no record when the value does not decode or
\* has an empty id, an empty version or the zero time as its lastUpdated,
\* and returns a record only when the three fields are set.
C15_UnpopulatedIsNotFound ==
    (/\ last.req.op \in ReadOps
     /\ last.calls = <<"Get">>
     /\ ("bookmarks:" \o last.req.id) \in DOMAIN db) =>
        LET e == db["bookmarks:" \o last.req.id]
            unset == \/ "id" \notin DOMAIN e
                     \/ e.id = ""
                     \/ e.version = ""
                     \/ e.lastUpdated.t = ZeroInstant
        IN  /\ unset => /\ last.local.err = ErrBookmarksNotFound
                        /\ last.local.b = NoBookmarks
                        /\ last.resp.status = 404
            /\ last.resp.status = 200 => ~unset

\* The lowercase letters and the digits.
LowerAndDigits ==
    {"a", "b", "c", "d", "e", "f", "g", "h", "i", "j", "k", "l", "m",
     "n", "o", "p", "q", "r", "s", "t", "u", "v", "w", "x", "y", "z",
     "0", "1", "2", "3", "4", "5", "6", "7", "8", "9"}

\* C13: gen.String(n) returns n characters of the 36-character alphabet of
\* lowercase letters and digits and no error, or an error and no string,
\* never a shorter string; the id of a create answered 200 is the string
\* gen.String(32) returned, 32 characters long.
C13_IdShape ==
    /\ Cardinality(LowerAndDigits) = 36
    /\ gen.called =>
          IF gen.out.err = ErrNil
            THEN /\ Len(gen.out.s) = gen.length
                 /\ \A i \in 1 .. Len(gen.out.s) : gen.out.s[i] \in LowerAndDigits
            ELSE gen.out.s = <<>>
    /\ CreateOK(last) =>
          /\ gen.called
          /\ gen.out.err = ErrNil
          /\ Len(gen.out.s) = 32
          /\ last.resp.id = BuilderString(gen.out.s)
          /\ Len(last.resp.id) = 32
          /\ ("bookmarks:" \o last.resp.id) \in DOMAIN db

\* C13 happens: a create was answered 200 with an id of 32 characters that
\* are not all the same.
C13_Witness ==
    /\ CreateOK(last)
    /\ Len(gen.out.s) = 32
    /\ gen.out.s[1] # gen.out.s[2]
    /\ gen.out.s[32] \in {"0", "1", "2", "3", "4", "5", "6", "7", "8", "9"}

\* The entry under key k differs between the databases d and e.
Changed(d, e, k) ==
    \/ k \in DOMAIN d /\ k \notin DOMAIN e
    \/ k \notin DOMAIN d /\ k \in DOMAIN e
    \/ k \in DOMAIN d /\ k \in DOMAIN e /\ d[k] # e[k]

\* C16: a read, a read of lastUpdated and a read of version leave the
\* entries of all ids as they were, whatever the id and the status; an
\* entry changes only in the step that completes a create or an update, and
\* it is the entry of the id the create returned or the update addressed.
C16_Frame ==
    [][/\ (Completes /\ last'.req.op \in ReadOps)
             => (db' = db /\ last'.resp.status \in {200, 400, 404})
       /\ \A k \in DOMAIN db \cup DOMAIN db' :
            Changed(db, db', k) =>
               /\ Completes
               /\ \/ /\ last'.req.op = "Create"
                     /\ k = "bookmarks:" \o last'.resp.id
                  \/ /\ last'.req.op = "Update"
                     /\ k = "bookmarks:" \o last'.req.id]_vars

\* C16 happens: an update of one id was answered 200 and has stored its
\* payload, while the record of the other id is as its create left it.
C16_Witness ==
    /\ UpdateOK(last)
    /\ last.req.id = "idb"
    /\ Exists(db, "ida")
    /\ Exists(db, "idb")
    /\ db["bookmarks:ida"].bookmarks = ""
    /\ db["bookmarks:idb"].bookmarks = "abc"

====
